---- MODULE Spec2Model ----
(***************************************************************************)
(* Tool registration and dispatch of composite_demo/src/tools/             *)
(* tool_registry.py: register_tool, dispatch_tool and get_tools over the   *)
(* module-level registry _TOOL_HOOKS and listing _TOOL_DESCRIPTIONS.       *)
(*                                                                         *)
(* Text is a sequence of atoms.  In payloads every atom is one character,  *)
(* so str.strip, str.rstrip and the JSON scanner work character by         *)
(* character as in Python.  In documentation and message text an atom may  *)
(* be a run of characters that no operation looks inside.                  *)
(***************************************************************************)
EXTENDS Integers, Sequences, FiniteSets, TLC

\* ------------------------------------------------------------------------
\* Bounds of the model
\* ------------------------------------------------------------------------
MaxTail == 2        \* longest run of extra characters after a payload body
MaxRegs == 2        \* register_tool calls that succeed after import
MaxMutations == 1   \* changes a caller makes to one listing it holds

\* ------------------------------------------------------------------------
\* Python str operations
\* ------------------------------------------------------------------------
\* characters str.strip() removes, restricted to the payload alphabet
Whitespace == {" ", "\n"}

\* the tool-call marker of dispatch_tool
OBSERVATION == <<"<", "|", "o", "b", "s", "e", "r", "v", "a", "t", "i", "o", "n", "|", ">">>

CharsOf(s) == {s[i] : i \in 1..Len(s)}

RECURSIVE lstrip(_, _)
lstrip(s, chars) ==
    IF s # <<>> /\ Head(s) \in chars THEN lstrip(Tail(s), chars) ELSE s

\* str.rstrip(chars): removes every trailing character that is in chars
RECURSIVE rstrip(_, _)
rstrip(s, chars) ==
    IF s # <<>> /\ s[Len(s)] \in chars
    THEN rstrip(SubSeq(s, 1, Len(s) - 1), chars)
    ELSE s

strip(s) == rstrip(lstrip(s, Whitespace), Whitespace)

endswith(s, suffix) ==
    /\ Len(suffix) <= Len(s)
    /\ SubSeq(s, Len(s) - Len(suffix) + 1, Len(s)) = suffix

\* str(n) of a natural number, one atom per digit
DigitChars == <<"0", "1", "2", "3", "4", "5", "6", "7", "8", "9">>

RECURSIVE StrNat(_)
StrNat(n) ==
    IF n < 10 THEN <<DigitChars[n + 1]>>
    ELSE StrNat(n \div 10) \o <<DigitChars[(n % 10) + 1]>>

\* ------------------------------------------------------------------------
\* json.loads on payload text (json.decoder / json.scanner of CPython).
\* Exact on text over PayloadAlphabet: no backslash, sign, fraction or
\* bracket occurs in it.  Positions are 0-based as in Python.
\* ------------------------------------------------------------------------
_ws == {" ", "\n"}
ControlChars == {"\n"}
Digits == {"0", "1", "2", "3", "4", "5", "6", "7", "8", "9"}

Ok(val, end) == [tag |-> "ok", val |-> val, end |-> end]
\* StopIteration(idx) of scan_once
Stop(idx) == [tag |-> "stop", pos |-> idx]
JSONDecodeError(msg, pos) == [tag |-> "error", msg |-> msg, pos |-> pos]

\* s[i:i+1]
At(s, i) == IF i >= 0 /\ i < Len(s) THEN s[i + 1] ELSE ""

\* WHITESPACE.match(s, i).end()
RECURSIVE _w(_, _)
_w(s, i) == IF At(s, i) \in _ws THEN _w(s, i + 1) ELSE i

\* the str, int, float, bool, None and dict values json.loads builds;
\* they are also the model's Python values
JStr(chars) == [t |-> "str", s |-> chars]
JInt(n) == [t |-> "int", n |-> n]
JFloat(x) == [t |-> "float", n |-> x]      \* x is the (integral) value
JBool(b) == [t |-> "bool", b |-> b]
JNone == [t |-> "None"]
JDict(d) == [t |-> "dict", d |-> d]

\* scanstring(s, end): begin is the index of the opening quote
RECURSIVE scanstring(_, _, _)
scanstring(s, begin, next) ==
    IF next >= Len(s) THEN JSONDecodeError("Unterminated string starting at", begin)
    ELSE IF At(s, next) = "\"" THEN Ok(SubSeq(s, begin + 2, next), next + 1)
    ELSE IF At(s, next) \in ControlChars
         THEN JSONDecodeError("Invalid control character at", next)
    ELSE scanstring(s, begin, next + 1)

RECURSIVE DigitsEnd(_, _)
DigitsEnd(s, i) == IF At(s, i) \in Digits THEN DigitsEnd(s, i + 1) ELSE i

DigitVal(c) == CHOOSE n \in 0..9 : DigitChars[n + 1] = c

RECURSIVE IntOf(_, _, _)
IntOf(s, from, to) ==
    IF from >= to THEN 0
    ELSE IntOf(s, from, to - 1) * 10 + DigitVal(At(s, to - 1))

\* NUMBER_RE.match(s, idx): (0|[1-9]\d*)([eE]\d+)?
match_number(s, idx) ==
    LET intEnd == IF At(s, idx) = "0" THEN idx + 1 ELSE DigitsEnd(s, idx)
        expEnd == DigitsEnd(s, intEnd + 1)
    IN  IF At(s, idx) \notin Digits THEN Stop(idx)
        ELSE IF At(s, intEnd) \in {"e", "E"} /\ expEnd > intEnd + 1
             THEN Ok(JFloat(IntOf(s, idx, intEnd) * 10 ^ IntOf(s, intEnd + 1, expEnd)), expEnd)
             ELSE Ok(JInt(IntOf(s, idx, intEnd)), intEnd)

Literal(s, idx, word, val) ==
    IF idx + Len(word) <= Len(s) /\ SubSeq(s, idx + 1, idx + Len(word)) = word
    THEN Ok(val, idx + Len(word))
    ELSE Stop(idx)

RECURSIVE scan_once(_, _)
RECURSIVE JSONObjectLoop(_, _, _)

\* the while loop of JSONObject: end is the index after the opening quote
\* of the next key, pairs the dict built so far (a later key wins)
JSONObjectLoop(s, end0, pairs) ==
    LET key == scanstring(s, end0 - 1, end0)
    IN  IF key.tag # "ok" THEN key
        ELSE
        LET colon == IF At(s, key.end) # ":" THEN _w(s, key.end) ELSE key.end
        IN  IF At(s, colon) # ":"
            THEN JSONDecodeError("Expecting ':' delimiter", colon)
            ELSE
            LET vstart == _w(s, colon + 1)
                value == scan_once(s, vstart)
            IN  IF value.tag = "stop"
                THEN JSONDecodeError("Expecting value", value.pos)
                ELSE IF value.tag = "error" THEN value
                ELSE
                LET d == [k \in DOMAIN pairs \cup {key.val} |->
                             IF k = key.val THEN value.val ELSE pairs[k]]
                    e1 == _w(s, value.end)
                    nextchar == At(s, e1)
                IN  IF nextchar = "}" THEN Ok(JDict(d), e1 + 1)
                    ELSE IF nextchar # ","
                         THEN JSONDecodeError("Expecting ',' delimiter", e1)
                    ELSE
                    LET e2 == _w(s, e1 + 1)
                    IN  IF At(s, e2) # "\""
                        THEN JSONDecodeError(
                                 "Expecting property name enclosed in double quotes", e2)
                        ELSE JSONObjectLoop(s, e2 + 1, d)

\* JSONObject((s, end)): end is the index after the opening brace
JSONObject(s, end0) ==
    LET e1 == IF At(s, end0) # "\"" THEN _w(s, end0) ELSE end0
    IN  IF At(s, e1) = "}" THEN Ok(JDict(<<>>), e1 + 1)
        ELSE IF At(s, e1) # "\""
             THEN JSONDecodeError(
                      "Expecting property name enclosed in double quotes", e1)
        ELSE JSONObjectLoop(s, e1 + 1, <<>>)

scan_once(s, idx) ==
    LET nextchar == At(s, idx)
    IN  IF idx >= Len(s) THEN Stop(idx)
        ELSE IF nextchar = "\"" THEN
            LET r == scanstring(s, idx, idx + 1)
            IN  IF r.tag = "ok" THEN Ok(JStr(r.val), r.end) ELSE r
        ELSE IF nextchar = "{" THEN JSONObject(s, idx + 1)
        ELSE IF nextchar = "n" THEN Literal(s, idx, <<"n", "u", "l", "l">>, JNone)
        ELSE IF nextchar = "t" THEN Literal(s, idx, <<"t", "r", "u", "e">>, JBool(TRUE))
        ELSE IF nextchar = "f"
             THEN Literal(s, idx, <<"f", "a", "l", "s", "e">>, JBool(FALSE))
        ELSE match_number(s, idx)

\* JSONDecoder.decode(s): [tag |-> "ok", val] or [tag |-> "error", msg, pos]
json_loads(s) ==
    LET r == scan_once(s, _w(s, 0))
    IN  IF r.tag = "stop" THEN JSONDecodeError("Expecting value", r.pos)
        ELSE IF r.tag = "error" THEN r
        ELSE IF _w(s, r.end) # Len(s) THEN JSONDecodeError("Extra data", _w(s, r.end))
        ELSE [tag |-> "ok", val |-> r.val]

\* str(e) of a JSONDecodeError: "msg: line L column C (char P)"
CountNewlines(s, pos) == Cardinality({i \in 1..pos : i <= Len(s) /\ s[i] = "\n"})
LastNewline(s, pos) ==
    LET nl == {i \in 1..pos : i <= Len(s) /\ s[i] = "\n"}
    IN  IF nl = {} THEN 0 ELSE CHOOSE i \in nl : \A j \in nl : j <= i
StrJSONDecodeError(e, doc) ==
    <<e.msg, ": line ">> \o StrNat(CountNewlines(doc, e.pos) + 1)
        \o <<" column ">> \o StrNat(e.pos - LastNewline(doc, e.pos) + 1)
        \o <<" (char ">> \o StrNat(e.pos) \o <<")">>

\* ------------------------------------------------------------------------
\* Python values, exceptions and callables
\* ------------------------------------------------------------------------
None == JNone
PyTrue == JBool(TRUE)

\* isinstance(v, cls); bool is a subclass of int
isinstance(v, cls) ==
    IF cls = "int" THEN v.t \in {"int", "bool"} ELSE v.t = cls

\* str(v) of a value a capability returns
str(v) ==
    IF v.t = "str" THEN v.s
    ELSE IF v.t = "int" THEN StrNat(v.n)
    ELSE IF v.t = "float" THEN StrNat(v.n) \o <<".", "0">>
    ELSE IF v.t = "bool" THEN (IF v.b THEN <<"True">> ELSE <<"False">>)
    ELSE <<"None">>

Exc(cls, msg) == [cls |-> cls, msg |-> msg]
NoExc == Exc("none", <<>>)

\* classes deriving from Exception, as opposed to BaseException only
ExceptionSubclasses ==
    {"TypeError", "ValueError", "AttributeError", "ZeroDivisionError",
     "JSONDecodeError"}

\* a type used as Annotated origin: plain class or types.GenericAlias
PlainType(name) == [generic |-> FALSE, name |-> name, display |-> name]
GenericAlias(display) == [generic |-> TRUE, name |-> "", display |-> display]

\* inspect.Parameter.annotation
Annotated(typ, metadata) == [kind |-> "Annotated", origin |-> typ, metadata |-> metadata]
Unannotated == [kind |-> "empty", origin |-> PlainType(""), metadata |-> <<>>]
Bare(typ) == [kind |-> "bare", origin |-> typ, metadata |-> <<>>]

Param(name, annotation) == [name |-> name, annotation |-> annotation]

\* a callable: __name__, inspect.getdoc, inspect.signature and its body
Func(name, doc, params, body) ==
    [name |-> name, doc |-> doc, params |-> params, body |-> body]

\* parameter names
p_seed == <<"s", "e", "e", "d">>
p_range == <<"r", "a", "n", "g", "e">>
p_city_name == <<"c", "i", "t", "y", "_", "n", "a", "m", "e">>
p_query == <<"q", "u", "e", "r", "y">>
p_a == <<"a">>
p_b == <<"b">>

\* the three tools the module registers at import
random_number_generator ==
    Func("random_number_generator",
         JStr(<<"Generates a random number x, s.t. range[0] <= x < range[1]">>),
         << Param(p_seed, Annotated(PlainType("int"),
                <<JStr(<<"The random seed used by the generator">>), PyTrue>>)),
            Param(p_range, Annotated(GenericAlias("tuple[int, int]"),
                <<JStr(<<"The range of the generated numbers">>), PyTrue>>)) >>,
         "random_number_generator")

get_weather ==
    Func("get_weather",
         JStr(<<"Get the current weather for city_name">>),
         << Param(p_city_name, Annotated(PlainType("str"),
                <<JStr(<<"The name of the city to be queried">>), PyTrue>>)) >>,
         "get_weather")

get_shell ==
    Func("get_shell",
         JStr(<<"Use shell to run command">>),
         << Param(p_query, Annotated(PlainType("str"),
                <<JStr(<<"The command should run in Linux shell">>), PyTrue>>)) >>,
         "get_shell")

\* what the outside world answers during one call: the text a shell command
\* or the weather service produces, and the number random draws
Envs ==
    { [out |-> <<"o", "u", "t">>, rand |-> 1, handler |-> 2],
      [out |-> <<>>, rand |-> 2, handler |-> 0] }

Return(v) == [raised |-> FALSE, ret |-> v, exc |-> NoExc]
Raise(cls, msg) == [raised |-> TRUE, ret |-> None, exc |-> Exc(cls, msg)]

NumVal(v) == IF v.t = "bool" THEN (IF v.b THEN 1 ELSE 0) ELSE v.n
IsNum(v) == v.t \in {"int", "bool", "float"}

\* the bodies of random_number_generator, get_weather and get_shell.  No
\* JSON value is a tuple, so the draw is never reached from dispatch_tool.
SourceBody(func, args, env) ==
    IF func.body = "random_number_generator" THEN
        IF ~isinstance(args[p_seed], "int")
        THEN Raise("TypeError", <<"Seed must be an integer">>)
        ELSE IF ~isinstance(args[p_range], "tuple")
        THEN Raise("TypeError", <<"Range must be a tuple">>)
        ELSE Return(JInt(env.rand))
    ELSE IF func.body = "get_weather" THEN
        IF ~isinstance(args[p_city_name], "str")
        THEN Raise("TypeError", <<"City name must be a string">>)
        ELSE Return(JStr(env.out))
    ELSE
        IF ~isinstance(args[p_query], "str")
        THEN Raise("TypeError", <<"Command must be a string">>)
        ELSE Return(JStr(env.out))

\* the bodies of the callables registered after import:
\*   add: return a + b      div: return 1 // a      pass: return None
InputBody(func, args, env) ==
    IF func.body = "add" THEN
        IF IsNum(args[p_a]) /\ IsNum(args[p_b])
        THEN Return(IF "float" \in {args[p_a].t, args[p_b].t}
                    THEN JFloat(NumVal(args[p_a]) + NumVal(args[p_b]))
                    ELSE JInt(NumVal(args[p_a]) + NumVal(args[p_b])))
        ELSE IF args[p_a].t = "str" /\ args[p_b].t = "str"
        THEN Return(JStr(args[p_a].s \o args[p_b].s))
        ELSE Raise("TypeError", <<"unsupported operand type(s) for +">>)
    ELSE IF func.body = "div" THEN
        IF ~IsNum(args[p_a])
        THEN Raise("TypeError", <<"unsupported operand type(s) for //">>)
        ELSE IF NumVal(args[p_a]) = 0
        THEN Raise("ZeroDivisionError", <<"integer division or modulo by zero">>)
        ELSE Return(IF args[p_a].t = "float" THEN JFloat(1 \div NumVal(args[p_a]))
                    ELSE JInt(1 \div NumVal(args[p_a])))
    ELSE Return(None)

SourceBodies == {"random_number_generator", "get_weather", "get_shell"}

\* the body of a callable run on bound arguments
Body(func, args, env) ==
    IF func.body \in SourceBodies THEN SourceBody(func, args, env)
    ELSE InputBody(func, args, env)

ParamNames(func) == {func.params[i].name : i \in 1..Len(func.params)}

\* the call of func with tool_params unpacked as keyword arguments: binds
\* the keywords, then runs the body.  No callable of the model has defaults
\* or variadic parameters.
Call(func, tool_params, env) ==
    IF tool_params.t # "dict"
    THEN Raise("TypeError", <<func.name, "() argument after ** must be a mapping, not ",
                              tool_params.t>>)
    ELSE IF DOMAIN tool_params.d \ ParamNames(func) # {}
    THEN Raise("TypeError", <<func.name, "() got an unexpected keyword argument">>)
    ELSE IF ParamNames(func) \ DOMAIN tool_params.d # {}
    THEN Raise("TypeError", <<func.name, "() missing required positional argument">>)
    ELSE Body(func, tool_params.d, env)

\* ------------------------------------------------------------------------
\* register_tool
\* ------------------------------------------------------------------------
\* str(typ) of a GenericAlias, typ.__name__ otherwise
TypeLabel(typ) == IF typ.generic THEN typ.display ELSE typ.name

ParamDef(name, description, typ, required) ==
    [name |-> name, description |-> description, type |-> typ, required |-> required]

ToolDef(tool_name, tool_description, tool_params) ==
    [name |-> tool_name, description |-> tool_description, params |-> tool_params]

\* the loop over the signature: the parameter descriptors, or the first
\* exception.  Two-element unpacking of __metadata__ raises ValueError.
\* (Messages quote the parameter name between backquotes in the source;
\* a backquote cannot be written in a string here.)
RECURSIVE ParamLoop(_, _, _)
ParamLoop(python_params, i, tool_params) ==
    IF i > Len(python_params)
    THEN [raised |-> FALSE, exc |-> NoExc, tool_params |-> tool_params]
    ELSE
    LET name == python_params[i].name
        annotation == python_params[i].annotation
        fail(cls, msg) == [raised |-> TRUE, exc |-> Exc(cls, msg), tool_params |-> <<>>]
    IN  IF annotation.kind = "empty"
        THEN fail("TypeError", <<"Parameter ">> \o name \o <<" missing type annotation">>)
        ELSE IF annotation.kind # "Annotated"
        THEN fail("TypeError",
                  <<"Annotation type for ">> \o name \o <<" must be typing.Annotated">>)
        ELSE IF Len(annotation.metadata) < 2
        THEN fail("ValueError", <<"not enough values to unpack (expected 2, got ">>
                                \o StrNat(Len(annotation.metadata)) \o <<")">>)
        ELSE IF Len(annotation.metadata) > 2
        THEN fail("ValueError", <<"too many values to unpack (expected 2)">>)
        ELSE
        LET typ == TypeLabel(annotation.origin)
            description == annotation.metadata[1]
            required == annotation.metadata[2]
        IN  IF ~isinstance(description, "str")
            THEN fail("TypeError",
                      <<"Description for ">> \o name \o <<" must be a string">>)
            ELSE IF ~isinstance(required, "bool")
            THEN fail("TypeError",
                      <<"Required for ">> \o name \o <<" must be a bool">>)
            ELSE ParamLoop(python_params, i + 1,
                     Append(tool_params, ParamDef(name, description.s, typ, required.b)))

\* variant: (inspect.getdoc(func) or "").strip()
ToolDescription_defaultEmpty(func) ==
    [raised |-> FALSE, exc |-> NoExc,
     text |-> IF func.doc = None THEN <<>> ELSE strip(func.doc.s)]

\* inspect.getdoc(func).strip(): None has no strip
ToolDescription(func) ==
    IF func.doc = None
    THEN [raised |-> TRUE,
          exc |-> Exc("AttributeError", <<"'NoneType' object has no attribute 'strip'">>),
          text |-> <<>>]
    ELSE [raised |-> FALSE, exc |-> NoExc, text |-> strip(func.doc.s)]

SetHook(hooks, tool_name, func) ==
    [n \in DOMAIN hooks \cup {tool_name} |-> IF n = tool_name THEN func ELSE hooks[n]]

\* variant: the hook and the descriptor are stored as parameters are read,
\* so a failing call leaves what it stored before the failing parameter
RegisterOutcome_partial(func, hooks, descs) ==
    LET tool_description == ToolDescription(func)
        loop == ParamLoop(func.params, 1, <<>>)
        stored == SetHook(hooks, func.name, func)
    IN  IF tool_description.raised
        THEN [raised |-> TRUE, exc |-> tool_description.exc,
              hooks |-> hooks, descs |-> descs]
        ELSE IF loop.raised
        THEN [raised |-> TRUE, exc |-> loop.exc, hooks |-> stored,
              descs |-> Append(descs, ToolDef(func.name, tool_description.text, <<>>))]
        ELSE [raised |-> FALSE, exc |-> NoExc, hooks |-> stored,
              descs |-> Append(descs,
                           ToolDef(func.name, tool_description.text, loop.tool_params))]

\* register_tool(func) on registry hooks and listing descs: whether it
\* raised, and the registry and listing it leaves
RegisterOutcome(func, hooks, descs) ==
    LET tool_name == func.name
        tool_description == ToolDescription(func)
        loop == ParamLoop(func.params, 1, <<>>)
        unchanged(exc) == [raised |-> TRUE, exc |-> exc, hooks |-> hooks, descs |-> descs]
    IN  IF tool_description.raised THEN unchanged(tool_description.exc)
        ELSE IF loop.raised THEN unchanged(loop.exc)
        ELSE [raised |-> FALSE, exc |-> NoExc,
              hooks |-> SetHook(hooks, tool_name, func),
              descs |-> Append(descs,
                               ToolDef(tool_name, tool_description.text, loop.tool_params))]

\* ------------------------------------------------------------------------
\* dispatch_tool
\* ------------------------------------------------------------------------
\* variant: python is not among the predefined tools
ALL_TOOLS_without_python == {"simple_browser", "cogview"}

\* the keys of ALL_TOOLS
ALL_TOOLS == {"simple_browser", "python", "cogview"}

ToolObservation(content_type, text) ==
    [content_type |-> content_type, text |-> text, image_url |-> None,
     role_metadata |-> None, metadata |-> None]

\* a predefined handler, tool_call(code, session_id) of browser, python or
\* cogview: it answers with as many observations as the outside world
\* decides, each carrying what it was given
HandlerResult(tool_name, code, session_id, env) ==
    [i \in 1..env.handler |->
        [content_type |-> tool_name, text |-> code, image_url |-> None,
         role_metadata |-> None, metadata |-> JStr(<<session_id>>)]]

HandlerCall(tool_name, code, session_id) ==
    [kind |-> "handler", name |-> tool_name, code |-> code,
     session_id |-> session_id, args |-> None]
HookCall(tool_name, tool_params) ==
    [kind |-> "hook", name |-> tool_name, code |-> <<>>,
     session_id |-> "", args |-> tool_params]

\* code.strip().rstrip('<|observation|>').strip()
Normalise(code) == strip(rstrip(strip(code), CharsOf(OBSERVATION)))

\* variant: except (TypeError,)
Catches_TypeErrorOnly(exc) == exc.cls = "TypeError"

\* except (Exception,)
Catches(exc) == exc.cls \in ExceptionSubclasses

\* traceback.format_exc()
format_exc(exc) == <<"Traceback (most recent call last):\n", exc.cls, ": ">> \o exc.msg

DecodeErrorText(e, code) == <<"Error decoding JSON: ">> \o StrJSONDecodeError(e, code)
NotFoundText(tool_name) ==
    <<"Tool ", tool_name, " not found. Please use a provided tool.">>

Returned(value, calls, parsed) ==
    [raised |-> FALSE, exc |-> NoExc, value |-> value, calls |-> calls, parsed |-> parsed]
Propagated(exc, calls, parsed) ==
    [raised |-> TRUE, exc |-> exc, value |-> <<>>, calls |-> calls, parsed |-> parsed]

\* variant: a fixed content type
SuccessObservation_fixedType(tool_name, ret) == ToolObservation("tool", str(ret))

\* the observation of a capability that returned ret
SuccessObservation(tool_name, ret) == ToolObservation(tool_name, str(ret))

\* the call of the hook and the try around it
InvokeHook(hooks, tool_name, tool_params, env, parsed) ==
    LET tool_hook == hooks[tool_name]
        r == Call(tool_hook, tool_params, env)
        calls == <<HookCall(tool_name, tool_params)>>
    IN  IF ~r.raised
        THEN Returned(<<SuccessObservation(tool_name, r.ret)>>, calls, parsed)
        ELSE IF Catches(r.exc)
        THEN Returned(<<ToolObservation("system_error", format_exc(r.exc))>>, calls, parsed)
        ELSE Propagated(r.exc, calls, parsed)

\* variant: the registry lookup comes before the parse
DispatchCustom_lookupFirst(hooks, tool_name, code0, env) ==
    LET code == Normalise(code0)
        parsed == <<code>>
        tool_params == json_loads(code)
    IN  IF tool_name \notin DOMAIN hooks
        THEN Returned(<<ToolObservation("system_error", NotFoundText(tool_name))>>,
                      <<>>, <<>>)
        ELSE IF tool_params.tag = "error"
        THEN Returned(<<ToolObservation("system_error", DecodeErrorText(tool_params, code))>>,
                      <<>>, parsed)
        ELSE InvokeHook(hooks, tool_name, tool_params.val, env, parsed)

\* the custom-tool path: normalise, parse, look up, invoke
DispatchCustom(hooks, tool_name, code0, env) ==
    LET code == Normalise(code0)
        parsed == <<code>>
        tool_params == json_loads(code)
    IN  IF tool_params.tag = "error"
        THEN Returned(<<ToolObservation("system_error", DecodeErrorText(tool_params, code))>>,
                      <<>>, parsed)
        ELSE IF tool_name \notin DOMAIN hooks
        THEN Returned(<<ToolObservation("system_error", NotFoundText(tool_name))>>,
                      <<>>, parsed)
        ELSE InvokeHook(hooks, tool_name, tool_params.val, env, parsed)

\* dispatch_tool(tool_name, code, session_id): what it returns or raises,
\* the calls it makes and the text it hands to json.loads
Dispatch(hooks, tool_name, code, session_id, env) ==
    IF tool_name \in ALL_TOOLS
    THEN Returned(HandlerResult(tool_name, code, session_id, env),
                  <<HandlerCall(tool_name, code, session_id)>>, <<>>)
    ELSE DispatchCustom(hooks, tool_name, code, env)

\* ------------------------------------------------------------------------
\* get_tools and what a caller does with the listing it got
\* ------------------------------------------------------------------------
\* A listing held by a caller.  alias: the list object is _TOOL_DESCRIPTIONS
\* itself.  Each item knows the index of the registry's dict (src) and
\* params list (psrc) it shares, 0 when the object is its own.
Item(src, psrc, val) == [src |-> src, psrc |-> psrc, val |-> val]
NoView == [held |-> FALSE, alias |-> FALSE, items |-> <<>>, muts |-> 0]

\* variant: list(descs), a new list of the registry's own dicts
deepcopy_shallow(descs) ==
    [held |-> TRUE, alias |-> FALSE, muts |-> 0,
     items |-> [i \in 1..Len(descs) |-> Item(i, i, descs[i])]]

\* copy.deepcopy(descs): new list, new dicts, new params lists
deepcopy(descs) ==
    [held |-> TRUE, alias |-> FALSE, muts |-> 0,
     items |-> [i \in 1..Len(descs) |-> Item(0, 0, descs[i])]]

Contents(v) == [i \in 1..Len(v.items) |-> v.items[i].val]

\* ------------------------------------------------------------------------
\* Inputs
\* ------------------------------------------------------------------------
doc_int == JStr(<<"an integer">>)
ann_int == Annotated(PlainType("int"), <<doc_int, PyTrue>>)

\* callables handed to register_tool after import.  add_again has the
\* __name__ of add; python_custom has the name of a predefined tool.
add ==
    Func("add", JStr(<<"Add two numbers", " ">>),
         <<Param(p_a, ann_int), Param(p_b, ann_int)>>, "add")
add_again ==
    Func("add", JStr(<<"Reciprocal">>), <<Param(p_a, ann_int)>>, "div")
python_custom ==
    Func("python", JStr(<<"Shadow">>), <<Param(p_a, ann_int)>>, "pass")
no_doc ==
    Func("no_doc", None, <<Param(p_a, ann_int)>>, "pass")
no_annotation ==
    Func("no_annotation", JStr(<<"doc">>),
         <<Param(p_a, ann_int), Param(p_b, Unannotated)>>, "pass")
bare_annotation ==
    Func("bare_annotation", JStr(<<"doc">>),
         <<Param(p_a, Bare(PlainType("int")))>>, "pass")
short_metadata ==
    Func("short_metadata", JStr(<<"doc">>),
         <<Param(p_a, Annotated(PlainType("int"), <<doc_int>>))>>, "pass")
bad_description ==
    Func("bad_description", JStr(<<"doc">>),
         <<Param(p_a, ann_int),
           Param(p_b, Annotated(PlainType("int"), <<JInt(1), PyTrue>>))>>, "pass")
bad_required ==
    Func("bad_required", JStr(<<"doc">>),
         <<Param(p_a, Annotated(PlainType("int"), <<doc_int, JStr(<<"yes">>)>>))>>,
         "pass")

WellFormed == {add, add_again, python_custom}
Funcs ==
    WellFormed \cup {no_doc, no_annotation, bare_annotation, short_metadata,
                     bad_description, bad_required}

ToolNames == {"get_shell", "random_number_generator", "add", "python",
              "simple_browser", "no_such_tool"}
SessionIds == {"s1", "s2"}

\* payload bodies
b_query == <<"{", "\"", "q", "u", "e", "r", "y", "\"", ":", "\"", "l", "s", "\"", "}">>    \* {"query":"ls"}: valid arguments of get_shell
b_query_int == <<"{", "\"", "q", "u", "e", "r", "y", "\"", ":", "1", "}">>    \* {"query":1}: right keys, wrong type: get_shell raises
b_add == <<"{", "\"", "a", "\"", ":", "1", ",", " ", "\"", "b", "\"", ":", "2", "}">>    \* {"a":1, "b":2}: valid arguments of add
b_add_mixed == <<"{", "\"", "a", "\"", ":", "0", ",", "\"", "b", "\"", ":", "\"", "x", "\"", "}">>    \* {"a":0,"b":"x"}: right keys, add raises
b_a == <<"{", "\"", "a", "\"", ":", "0", "}">>    \* {"a":0}: one key
b_empty_object == <<"{", "}">>    \* {}: no keys
b_true == <<"t", "r", "u", "e">>    \* true: valid JSON, not a mapping
b_unclosed == <<"{", "\"", "a", "\"", ":", "1">>    \* {"a":1: not JSON
b_empty == <<>>    \* : not JSON
Bodies == {b_query, b_query_int, b_add, b_add_mixed, b_a, b_empty_object,
           b_true, b_unclosed, b_empty}

\* what may follow a body: characters of the marker and whitespace, then
\* possibly the marker, then possibly whitespace
TailChars == {" ", ">"}
Tails == UNION {[1..k -> TailChars] : k \in 0..MaxTail}
Payloads ==
    {lead \o b \o tl \o m \o w :
        lead \in {<<>>, <<" ">>}, b \in Bodies, tl \in Tails,
        m \in {<<>>, OBSERVATION}, w \in {<<>>, <<" ">>}}

\* the calls made while the registry evolves
CoreNames == {"add", "python"}
CorePayloads == {b_add, b_a \o OBSERVATION, b_unclosed}
CoreSessionIds == {"s1"}

\* a descriptor a caller may put into the listing it holds
ForeignDef == ToolDef("foreign", <<"not registered">>, <<>>)
MutationKinds == {"append", "remove", "rename", "clear_params"}

\* ------------------------------------------------------------------------
\* State
\* ------------------------------------------------------------------------
VARIABLES
    _TOOL_HOOKS,            \* tool name -> callable
    _TOOL_DESCRIPTIONS,     \* list of tool_def
    view,                   \* the listing a caller got from get_tools
    regs,                   \* register_tool calls that succeeded after import
    last                    \* the last operation: its inputs and outcome

vars == <<_TOOL_HOOKS, _TOOL_DESCRIPTIONS, view, regs, last>>

\* the registry after register_tool was applied to each callable of fs
RECURSIVE RegisterAll(_, _, _)
RegisterAll(fs, hooks, descs) ==
    IF fs = <<>> THEN [hooks |-> hooks, descs |-> descs]
    ELSE LET r == RegisterOutcome(Head(fs), hooks, descs)
         IN  RegisterAll(Tail(fs), r.hooks, r.descs)

\* the decorators run at import, in source order
Imported == RegisterAll(<<random_number_generator, get_weather, get_shell>>, <<>>, <<>>)

Init ==
    /\ _TOOL_HOOKS = Imported.hooks
    /\ _TOOL_DESCRIPTIONS = Imported.descs
    /\ view = NoView
    /\ regs = 0
    /\ last = [op |-> "import"]

\* ------------------------------------------------------------------------
\* Operations
\* ------------------------------------------------------------------------
register_tool(func) ==
    LET r == RegisterOutcome(func, _TOOL_HOOKS, _TOOL_DESCRIPTIONS)
    IN  /\ regs < MaxRegs
        /\ _TOOL_HOOKS' = r.hooks
        /\ _TOOL_DESCRIPTIONS' = r.descs
        /\ regs' = IF r.raised THEN regs ELSE regs + 1
        /\ last' = [op |-> "register_tool", func |-> func, raised |-> r.raised,
                    exc |-> r.exc,
                    hooks_before |-> _TOOL_HOOKS, descs_before |-> _TOOL_DESCRIPTIONS]
        /\ UNCHANGED view

DispatchRecord(tool_name, code, session_id, env) ==
    LET r == Dispatch(_TOOL_HOOKS, tool_name, code, session_id, env)
    IN  [op |-> "dispatch_tool", tool_name |-> tool_name, code |-> code,
         session_id |-> session_id, env |-> env,
         raised |-> r.raised, exc |-> r.exc, value |-> r.value,
         calls |-> r.calls, parsed |-> r.parsed,
         hooks_before |-> _TOOL_HOOKS, descs_before |-> _TOOL_DESCRIPTIONS]

dispatch_tool(tool_name, code, session_id, env) ==
    /\ last' = DispatchRecord(tool_name, code, session_id, env)
    /\ UNCHANGED <<_TOOL_HOOKS, _TOOL_DESCRIPTIONS, view, regs>>

get_tools ==
    /\ view' = deepcopy(_TOOL_DESCRIPTIONS)
    /\ last' = [op |-> "get_tools"]
    /\ UNCHANGED <<_TOOL_HOOKS, _TOOL_DESCRIPTIONS, regs>>

\* The caller changes the listing it holds; whatever object it shares with
\* the registry changes with it.
Shift(items) == [i \in 1..Len(items) |->
                    [items[i] EXCEPT !.src = IF @ > 0 THEN @ - 1 ELSE 0,
                                     !.psrc = IF @ > 0 THEN @ - 1 ELSE 0]]
MutateView(kind) ==
    /\ view.held
    /\ view.muts < MaxMutations
    /\ kind \in {"remove", "rename", "clear_params"} => view.items # <<>>
    /\ last' = [op |-> "mutate", kind |-> kind]
    /\ UNCHANGED <<_TOOL_HOOKS, regs>>
    /\ CASE kind = "append" ->
            /\ view' = [view EXCEPT !.items = Append(@, Item(0, 0, ForeignDef)),
                                    !.muts = @ + 1]
            /\ _TOOL_DESCRIPTIONS' =
                   IF view.alias THEN Append(_TOOL_DESCRIPTIONS, ForeignDef)
                   ELSE _TOOL_DESCRIPTIONS
         [] kind = "remove" ->
            /\ view' = [view EXCEPT
                          !.items = IF view.alias THEN Shift(Tail(@)) ELSE Tail(@),
                          !.muts = @ + 1]
            /\ _TOOL_DESCRIPTIONS' =
                   IF view.alias THEN Tail(_TOOL_DESCRIPTIONS) ELSE _TOOL_DESCRIPTIONS
         [] kind = "rename" ->
            /\ view' = [view EXCEPT !.items[1].val.name = "renamed", !.muts = @ + 1]
            /\ _TOOL_DESCRIPTIONS' =
                   IF view.items[1].src > 0
                   THEN [_TOOL_DESCRIPTIONS EXCEPT ![view.items[1].src].name = "renamed"]
                   ELSE _TOOL_DESCRIPTIONS
         [] kind = "clear_params" ->
            /\ view' = [view EXCEPT !.items[1].val.params = <<>>, !.muts = @ + 1]
            /\ _TOOL_DESCRIPTIONS' =
                   IF view.items[1].psrc > 0
                   THEN [_TOOL_DESCRIPTIONS EXCEPT ![view.items[1].psrc].params = <<>>]
                   ELSE _TOOL_DESCRIPTIONS

Next ==
    \/ \E func \in Funcs : register_tool(func)
    \/ \E tool_name \in CoreNames, code \in CorePayloads,
          session_id \in CoreSessionIds, env \in Envs :
            dispatch_tool(tool_name, code, session_id, env)
    \/ get_tools
    \/ \E kind \in MutationKinds : MutateView(kind)

Spec == Init /\ [][Next]_vars

\* ------------------------------------------------------------------------
\* One dispatch_tool call, on every payload, against a registry that
\* register_tool has built
\* ------------------------------------------------------------------------
Registries ==
    { RegisterAll(fs, Imported.hooks, Imported.descs) :
        fs \in {<<>>, <<add>>, <<add, add_again>>, <<python_custom>>} }

InitCall ==
    /\ \E reg \in Registries :
          /\ _TOOL_HOOKS = reg.hooks
          /\ _TOOL_DESCRIPTIONS = reg.descs
          /\ regs = Len(reg.descs) - Len(Imported.descs)
    /\ view = NoView
    /\ \E tool_name \in ToolNames, code \in Payloads,
          session_id \in SessionIds, env \in Envs :
            last = [op |-> "call", tool_name |-> tool_name, code |-> code,
                    session_id |-> session_id, env |-> env]

DispatchPending ==
    /\ last.op = "call"
    /\ dispatch_tool(last.tool_name, last.code, last.session_id, last.env)

NextCall == DispatchPending

SpecCall == InitCall /\ [][NextCall]_vars

\* ------------------------------------------------------------------------
\* Properties
\* ------------------------------------------------------------------------
\* the predefined tool names
Predefined == {"simple_browser", "python", "cogview"}

Dispatched == last.op = "dispatch_tool"
DispatchedCustom == Dispatched /\ last.tool_name \notin Predefined
Registered == last.op = "register_tool"
RegistryAsBefore ==
    /\ _TOOL_HOOKS = last.hooks_before
    /\ _TOOL_DESCRIPTIONS = last.descs_before

\* C1: for a registered custom tool and any payload, dispatch_tool does not
\* raise; it returns one observation, calls the capability at most once,
\* and when that call raises the observation is a system_error whose text
\* carries the exception class and message.
C1_NoPropagation ==
    (DispatchedCustom /\ last.tool_name \in DOMAIN _TOOL_HOOKS) =>
        /\ ~last.raised
        /\ Len(last.value) = 1
        /\ Len(last.calls) <= 1
        /\ \A i \in 1..Len(last.calls) :
              LET r == Call(_TOOL_HOOKS[last.tool_name], last.calls[i].args, last.env)
              IN  r.raised =>
                    /\ last.value[1].content_type = "system_error"
                    /\ r.exc.cls \in CharsOf(last.value[1].text)
                    /\ endswith(last.value[1].text, r.exc.msg)

\* C1 witness: a registered capability raised ZeroDivisionError in its body
C1_Witness ==
    /\ DispatchedCustom
    /\ last.tool_name \in DOMAIN _TOOL_HOOKS
    /\ Len(last.calls) = 1
    /\ ~last.raised
    /\ "ZeroDivisionError" \in CharsOf(last.value[1].text)

\* the descriptor register_tool lists for a callable
DescriptorOf(func) == RegisterOutcome(func, <<>>, <<>>).descs[1]

\* C2: the listing holds exactly one descriptor per registered name, and it
\* is the descriptor of the callable registered under that name.
C2_UniqueNames ==
    /\ \A i, j \in 1..Len(_TOOL_DESCRIPTIONS) :
          _TOOL_DESCRIPTIONS[i].name = _TOOL_DESCRIPTIONS[j].name => i = j
    /\ {_TOOL_DESCRIPTIONS[i].name : i \in 1..Len(_TOOL_DESCRIPTIONS)}
          = DOMAIN _TOOL_HOOKS
    /\ \A i \in 1..Len(_TOOL_DESCRIPTIONS) :
          _TOOL_DESCRIPTIONS[i] = DescriptorOf(_TOOL_HOOKS[_TOOL_DESCRIPTIONS[i].name])

\* C3: register_tool on a callable without documentation raises and leaves
\* the registry and the listing as they were.
C3_NoDocRejected ==
    (Registered /\ last.func.doc = None) => (last.raised /\ RegistryAsBefore)

\* C3 witness: such a call was made and raised
C3_Witness ==
    /\ Registered
    /\ last.func.doc = None
    /\ last.raised
    /\ last.func.name \notin DOMAIN _TOOL_HOOKS

\* a parameter without the Annotated[type, description, required] form, or
\* whose description is not a str or whose required flag is not a bool
MalformedParam(param) ==
    \/ param.annotation.kind # "Annotated"
    \/ Len(param.annotation.metadata) # 2
    \/ param.annotation.metadata[1].t # "str"
    \/ param.annotation.metadata[2].t # "bool"

\* C4: register_tool on a callable with a malformed parameter, at any
\* position, raises and leaves the registry and the listing as they were.
C4_NoPartialRegistration ==
    (Registered /\ \E i \in 1..Len(last.func.params) : MalformedParam(last.func.params[i]))
        => (last.raised /\ RegistryAsBefore)

\* C4 witness: the malformed parameter came after a well-formed one
C4_Witness ==
    /\ Registered
    /\ Len(last.func.params) = 2
    /\ ~MalformedParam(last.func.params[1])
    /\ MalformedParam(last.func.params[2])
    /\ last.raised
    /\ last.func.name \notin DOMAIN _TOOL_HOOKS

\* C5: for a custom tool name, the payload followed by the marker is
\* answered as the payload alone.
C5_MarkerIgnored ==
    DispatchedCustom =>
        LET r == Dispatch(_TOOL_HOOKS, last.tool_name, last.code \o OBSERVATION,
                          last.session_id, last.env)
        IN  /\ r.raised = last.raised
            /\ r.value = last.value

\* C6: for a custom tool name, registered or not, a payload that does not
\* parse after normalisation is answered by one system_error observation
\* naming the JSON decoding failure; nothing is called and the registry is
\* as before.
C6_DecodeError ==
    (DispatchedCustom /\ json_loads(Normalise(last.code)).tag = "error") =>
        /\ ~last.raised
        /\ Len(last.value) = 1
        /\ last.value[1].content_type = "system_error"
        /\ last.value[1].text[1] = "Error decoding JSON: "
        /\ json_loads(Normalise(last.code)).msg \in CharsOf(last.value[1].text)
        /\ last.calls = <<>>
        /\ RegistryAsBefore

\* C6 witness: a malformed payload for a name that is not registered
C6_Witness ==
    /\ DispatchedCustom
    /\ last.tool_name \notin DOMAIN _TOOL_HOOKS
    /\ json_loads(Normalise(last.code)).tag = "error"
    /\ last.value[1].text[1] = "Error decoding JSON: "

\* C7: for a registered custom tool and a payload that parses to an object
\* the capability accepts without raising, dispatch_tool returns one
\* observation with the tool name as content_type and str of the returned
\* value as text; the capability is called once with the parsed object as
\* keyword arguments and without the session identifier.
C7_Success ==
    (/\ DispatchedCustom
     /\ last.tool_name \in DOMAIN _TOOL_HOOKS
     /\ json_loads(Normalise(last.code)).tag = "ok"
     /\ json_loads(Normalise(last.code)).val.t = "dict"
     /\ ~Call(_TOOL_HOOKS[last.tool_name], json_loads(Normalise(last.code)).val,
              last.env).raised)
    =>
        LET tool_params == json_loads(Normalise(last.code)).val
            ret == Call(_TOOL_HOOKS[last.tool_name], tool_params, last.env).ret
        IN  /\ ~last.raised
            /\ Len(last.value) = 1
            /\ last.value[1].content_type = last.tool_name
            /\ last.value[1].text = str(ret)
            /\ Len(last.calls) = 1
            /\ last.calls[1].kind = "hook"
            /\ last.calls[1].args = tool_params
            /\ last.calls[1].session_id # last.session_id

\* C7 witness: add returned 3 for a = 1, b = 2
C7_Witness ==
    /\ DispatchedCustom
    /\ last.tool_name = "add"
    /\ Len(last.value) = 1
    /\ last.value[1].content_type = "add"
    /\ last.value[1].text = <<"3">>

\* C8: for a predefined tool name the handler is called once with the
\* payload and the session identifier as given, nothing is parsed, and
\* what the handler returns is returned; a callable registered under the
\* name is not called.
C8_PredefinedBypass ==
    (Dispatched /\ last.tool_name \in Predefined) =>
        /\ ~last.raised
        /\ last.parsed = <<>>
        /\ Len(last.calls) = 1
        /\ last.calls[1].kind = "handler"
        /\ last.calls[1].name = last.tool_name
        /\ last.calls[1].code = last.code
        /\ last.calls[1].session_id = last.session_id
        /\ last.value = HandlerResult(last.tool_name, last.code, last.session_id, last.env)

\* C8 witness: python, with a callable registered under that name, on a
\* payload that is not JSON and that normalisation would change
C8_Witness ==
    /\ Dispatched
    /\ last.tool_name = "python"
    /\ "python" \in DOMAIN _TOOL_HOOKS
    /\ json_loads(last.code).tag = "error"
    /\ Normalise(last.code) # last.code
    /\ Len(last.value) = 2

\* C9: no step other than a register_tool call changes the listing
\* get_tools copies or the registry dispatch_tool reads; in particular no
\* change a caller makes to a listing it holds.
C9_DefensiveCopy ==
    [][last'.op # "register_tool" =>
          UNCHANGED <<_TOOL_DESCRIPTIONS, _TOOL_HOOKS>>]_vars

\* C9 witness: a caller changed the listing it holds
C9_Witness ==
    /\ last.op = "mutate"
    /\ view.held
    /\ Contents(view) # _TOOL_DESCRIPTIONS

\* str.removesuffix
removesuffix(s, suffix) ==
    IF endswith(s, suffix) THEN SubSeq(s, 1, Len(s) - Len(suffix)) ELSE s

\* C10: the text handed to the JSON parser is the trimmed payload with at
\* most one trailing marker removed (and trimmed again).
C10_OnlyMarkerRemoved ==
    DispatchedCustom =>
        last.parsed = <<strip(removesuffix(strip(last.code), OBSERVATION))>>

====
